---- MODULE Spec2Model ----
(***************************************************************************)
(* Rust-Monitor: the tick loop of App (src/app.rs) and the GPU telemetry   *)
(* backends it samples: NVML polling, the IOReport delta sampler of        *)
(* src/macos_gpu.rs and the Linux sysfs scrape.                            *)
(*                                                                         *)
(* Conventions.  Option<T> is a sequence of length <= 1: <<>> is None (or  *)
(* Err) and <<v>> is Some(v) (or Ok(v)).  A VecDeque<f64> is a sequence,   *)
(* front first.  The f64 values the histories hold are whole numbers for   *)
(* every input drawn here, so they are kept as integers.                   *)
(***************************************************************************)
EXTENDS Integers, Sequences, FiniteSets, TLC

\* app.rs:6
HISTORY_LEN == 60

\* Bounds of the exploration.
MaxTicks == 1
MaxNvmlDevices == 2
MaxDrmEntries == 2
MaxChannels == 2
MaxMacTicks == 2
MaxSensors == 2
MaxQuery == 2

None == <<>>
Some(v) == <<v>>
is_some(o) == Len(o) = 1
unwrap_or(o, d) == IF Len(o) = 1 THEN o[1] ELSE d

Min(a, b) == IF a < b THEN a ELSE b

(***************************************************************************)
(* History buffers: VecDeque<f64> of HISTORY_LEN zeros, pushed by          *)
(* pop_front followed by push_back.                                        *)
(***************************************************************************)
new_history == [i \in 1..HISTORY_LEN |-> 0]

pop_front(q) == IF q = <<>> THEN q ELSE Tail(q)

push_back(q, v) == Append(q, v)

\* mutant: the push at the front, evicting the newest
push_history_evicting_newest(q, v) == <<v>> \o SubSeq(q, 1, Len(q) - 1)

\* mutant: the push without the pop_front before it
push_history_without_pop(q, v) == push_back(q, v)

push_history(q, v) == push_back(pop_front(q), v)

(***************************************************************************)
(* Strings of the process table and of the search query are sequences of   *)
(* characters.  The characters drawn are ASCII; char_code is their code,   *)
(* which is what String's Ord compares.                                    *)
(***************************************************************************)
Digits == <<"0", "1", "2", "3", "4", "5", "6", "7", "8", "9">>

char_code(c) ==
    CASE c = "/" -> 47
      [] c \in {Digits[d] : d \in 1..10} ->
            47 + (CHOOSE d \in 1..10 : Digits[d] = c)
      [] c = "?" -> 63
      [] c = "A" -> 65
      [] c = "B" -> 66
      [] c = "Y" -> 89
      [] c = "a" -> 97
      [] c = "b" -> 98
      [] c = "j" -> 106
      [] c = "k" -> 107
      [] c = "n" -> 110
      [] c = "q" -> 113
      [] c = "s" -> 115
      [] c = "t" -> 116
      [] c = "x" -> 120
      [] c = "y" -> 121

\* char::to_lowercase on ASCII
to_lowercase_char(c) ==
    CASE c = "A" -> "a"
      [] c = "B" -> "b"
      [] c = "Y" -> "y"
      [] OTHER -> c

\* str::to_lowercase
to_lowercase(str) == [i \in 1..Len(str) |-> to_lowercase_char(str[i])]

\* str::contains(&pat)
str_contains(str, pat) ==
    \E i \in 0..(Len(str) - Len(pat)) : SubSeq(str, i + 1, i + Len(pat)) = pat

\* u32::to_string
RECURSIVE to_string(_)
to_string(n) ==
    IF n < 10 THEN <<Digits[n + 1]>>
    ELSE to_string(n \div 10) \o <<Digits[(n % 10) + 1]>>

\* a.cmp(&b) is Less, for strings
RECURSIVE str_lt(_, _)
str_lt(a, b) ==
    IF b = <<>> THEN FALSE
    ELSE IF a = <<>> THEN TRUE
    ELSE IF char_code(a[1]) # char_code(b[1])
         THEN char_code(a[1]) < char_code(b[1])
    ELSE str_lt(Tail(a), Tail(b))

ProcessInfo(pid, name, cpu, memory) ==
    [pid |-> pid, name |-> name, cpu |-> cpu, memory |-> memory]

NetworkInterface(name, received, transmitted) ==
    [name |-> name, received |-> received, transmitted |-> transmitted]

(***************************************************************************)
(* What sysinfo reports in one refresh.  Two machine states are drawn: an  *)
(* idle one (one core listed, no memory or traffic reported) and a loaded  *)
(* one (two cores).  Memory and traffic figures are chosen so that the     *)
(* f64 expressions of update_stats are exact.  networks and processes are  *)
(* in the iteration order of the maps; rx and tx are the sums over the     *)
(* interfaces.  The loaded state lists one interface and one process less, *)
(* and no two processes agree on a sort key.                               *)
(***************************************************************************)
SysSample(level) ==
    IF level = 1
    THEN [global_cpu |-> 0, cpus |-> <<0>>, total_memory |-> 0,
          used_memory |-> 0, rx |-> 0, tx |-> 0,
          networks |-> <<NetworkInterface("eth0", 0, 0),
                         NetworkInterface("lo", 0, 0)>>,
          processes |-> <<ProcessInfo(1, <<"a">>, 10, 30),
                          ProcessInfo(12, <<"A", "b">>, 20, 10),
                          ProcessInfo(2, <<"b">>, 30, 20)>>]
    ELSE [global_cpu |-> 50, cpus |-> <<50, 100>>, total_memory |-> 8,
          used_memory |-> 4, rx |-> 2048, tx |-> 1024,
          networks |-> <<NetworkInterface("lo", 2048, 1024)>>,
          processes |-> <<ProcessInfo(1, <<"a">>, 40, 30),
                          ProcessInfo(2, <<"b">>, 30, 20)>>]

\* The raw utilization figure a GPU source reports at each machine state;
\* the second is outside 0..100.
RawUtilization(level) == IF level = 1 THEN 40 ELSE 150

Levels == {1, 2}

mem_pct(s) ==
    IF s.total_memory > 0 THEN (s.used_memory * 100) \div s.total_memory ELSE 0

\* for (i, cpu) in cpus().iter().enumerate() { if i < cpu_history.len() { push } }
push_cpu_history(hist, cpus) ==
    [i \in 1..Len(hist) |->
        IF i <= Len(cpus) THEN push_history(hist[i], cpus[i]) ELSE hist[i]]

(***************************************************************************)
(* GpuInfo and the state update_gpu works on.  A GPU state g is a record   *)
(*   gpus, gpu_util_history, apple_gpu_sampler   (fields of App)           *)
(*   origin   for each entry of gpus, the backend and the update that      *)
(*            pushed it                                                    *)
(*   invoked  the backends called during the current update                *)
(*   read     every reading a backend produced during the current update,  *)
(*            in order, before any de-duplication                          *)
(* The last three only observe the run; no operator reads them.            *)
(***************************************************************************)
GpuInfo(name, temperature, utilization, memory_used, memory_total, fan_speed, power_usage, power_limit) ==
    [name |-> name, temperature |-> temperature, utilization |-> utilization,
     memory_used |-> memory_used, memory_total |-> memory_total,
     fan_speed |-> fan_speed, power_usage |-> power_usage,
     power_limit |-> power_limit]

note_call(g, backend) == [g EXCEPT !.invoked = @ \cup {backend}]

note_read(g, backend, info) ==
    [g EXCEPT !.read = Append(@, [backend |-> backend, info |-> info])]

\* self.gpus.clear()
clear_gpus(g) == [g EXCEPT !.gpus = <<>>, !.origin = <<>>]

\* self.gpus.push(info)
push_gpu(g, backend, info, now) ==
    [g EXCEPT !.gpus = Append(@, info),
              !.origin = Append(@, [backend |-> backend, tick |-> now])]

\* while self.gpu_util_history.len() <= idx { push(VecDeque::from(vec![0.0; HISTORY_LEN])) }
grow_history(hist, idx) ==
    IF Len(hist) <= idx
    THEN hist \o [k \in 1..(idx + 1 - Len(hist)) |-> new_history]
    ELSE hist

\* the while loop, then gpu_util_history[idx].pop_front(); .push_back(utilization)
record_utilization(g, idx, utilization) ==
    [g EXCEPT !.gpu_util_history =
        [grow_history(@, idx) EXCEPT ![idx + 1] = push_history(@, utilization)]]

(***************************************************************************)
(* NVML.  One poll is  device_count: Option<count>  and, per index, the    *)
(* result of device_by_index: None, or the results of the seven queries.   *)
(***************************************************************************)
NvmlDevice(u) ==
    [name |-> Some("NVIDIA RTX"), temperature |-> Some(55),
     utilization_rates |-> Some(u),
     memory_info |-> Some([used |-> 2, total |-> 8]),
     fan_speed |-> Some(30), power_usage |-> Some(100),
     enforced_power_limit |-> Some(200)]

NvmlPolls(level) ==
    {[device_count |-> None, device_by_index |-> <<>>]} \cup
    UNION {{[device_count |-> Some(n), device_by_index |-> ds] :
               ds \in [1..n -> {None, Some(NvmlDevice(RawUtilization(level)))}]} :
           n \in 0..MaxNvmlDevices}

nvml_gpu_info(d) ==
    GpuInfo(unwrap_or(d.name, "Unknown GPU"),
            unwrap_or(d.temperature, 0),
            unwrap_or(d.utilization_rates, 0),
            IF is_some(d.memory_info) THEN d.memory_info[1].used ELSE 0,
            IF is_some(d.memory_info) THEN d.memory_info[1].total ELSE 0,
            d.fan_speed, d.power_usage, d.enforced_power_limit)

\* for i in 0..count { ... } of update_gpu; i is the 0-based device index
RECURSIVE nvml_loop(_, _, _, _)
nvml_loop(i, devices, g, now) ==
    IF i >= Len(devices) THEN g
    ELSE IF ~is_some(devices[i + 1]) THEN nvml_loop(i + 1, devices, g, now)
    ELSE LET info == nvml_gpu_info(devices[i + 1][1])
             g1 == push_gpu(note_read(g, "nvml", info), "nvml", info, now)
         IN  nvml_loop(i + 1, devices,
                       record_utilization(g1, i, info.utilization), now)

(***************************************************************************)
(* The IOReport delta sampler (macos_gpu.rs).                              *)
(*                                                                         *)
(* A delta is  channels: Option<sequence of Option<channel>>  (None: the   *)
(* "IOReportChannels" array is missing; a None element: a null channel).   *)
(* A channel is [group, subgroup, name, value].  Channel names come from a *)
(* fixed vocabulary, for which the substring and prefix tests of           *)
(* parse_delta are tabulated.                                              *)
(***************************************************************************)
ChannelNames ==
    {"Busy", "Idle", "active", "Core Clock", "GPU Energy", "Apple M1", "M1 Max", ""}

\* name.contains(pat)
contains(name, pat) ==
    CASE pat = "Busy" -> name = "Busy"
      [] pat = "active" -> name = "active"
      [] pat = "Core Clock" -> name = "Core Clock"
      [] pat = "GPU" -> name = "GPU Energy"
      [] OTHER -> FALSE

\* name.starts_with(pre)
starts_with(name, pre) ==
    CASE pre = "Apple" -> name = "Apple M1"
      [] pre = "M" -> name = "M1 Max"
      [] OTHER -> FALSE

Channel(group, subgroup, name, value) ==
    [group |-> group, subgroup |-> subgroup, name |-> name, value |-> value]

\* `val as u32` for an i64 val > 0; every value drawn is below 2^31
as_u32(val) == val

\* ((gpu_busy as f64 / gpu_total as f64) * 100.0) as u32, for gpu_total > 0.
\* The cast saturates, so a negative quotient gives 0.  In f64, (k/100)*100.0
\* falls just below k for k = 29, 57 and 58 and the cast truncates it to
\* k - 1; every other quotient in 0..100 truncates to the floor of
\* busy*100/total (checked against IEEE-754 doubles for total <= 3000).
\* Above 100 the value is exact only up to the min(100) that follows.
busy_ratio_as_u32(gpu_busy, gpu_total) ==
    IF gpu_busy <= 0 THEN 0
    ELSE LET q == (gpu_busy * 100) \div gpu_total
         IN  IF gpu_busy * 100 = q * gpu_total /\ q \in {29, 57, 58}
             THEN q - 1 ELSE q

\* mutant: a busy channel counted in gpu_busy only, not in gpu_total
parse_channel_total_without_busy(acc, ch) ==
    LET activity == ch.group = "GPU" /\ ch.subgroup = "GPU Activity"
        busy == activity /\ (contains(ch.name, "Busy") \/ contains(ch.name, "active"))
        clock == ch.group = "GPU" /\ contains(ch.name, "Core Clock") /\ ch.value > 0
        energy == ch.group = "Energy Model" /\ contains(ch.name, "GPU") /\ ch.value > 0
        named == /\ ch.group = "GPU" /\ acc.gpu_name = "Apple GPU" /\ ch.name # ""
                 /\ (starts_with(ch.name, "Apple") \/ starts_with(ch.name, "M"))
    IN  [gpu_name |-> IF named THEN ch.name ELSE acc.gpu_name,
         gpu_busy |-> IF busy THEN acc.gpu_busy + ch.value ELSE acc.gpu_busy,
         gpu_total |-> IF activity /\ ~busy THEN acc.gpu_total + ch.value
                       ELSE acc.gpu_total,
         power_mw |-> IF energy THEN Some(as_u32(ch.value)) ELSE acc.power_mw,
         freq_mhz |-> IF clock THEN Some(as_u32(ch.value)) ELSE acc.freq_mhz]

\* one iteration of `for i in 0..count` of parse_delta
parse_channel(acc, ch) ==
    LET activity == ch.group = "GPU" /\ ch.subgroup = "GPU Activity"
        busy == activity /\ (contains(ch.name, "Busy") \/ contains(ch.name, "active"))
        clock == ch.group = "GPU" /\ contains(ch.name, "Core Clock") /\ ch.value > 0
        energy == ch.group = "Energy Model" /\ contains(ch.name, "GPU") /\ ch.value > 0
        named == /\ ch.group = "GPU" /\ acc.gpu_name = "Apple GPU" /\ ch.name # ""
                 /\ (starts_with(ch.name, "Apple") \/ starts_with(ch.name, "M"))
    IN  [gpu_name |-> IF named THEN ch.name ELSE acc.gpu_name,
         gpu_busy |-> IF busy THEN acc.gpu_busy + ch.value ELSE acc.gpu_busy,
         gpu_total |-> IF activity THEN acc.gpu_total + ch.value ELSE acc.gpu_total,
         power_mw |-> IF energy THEN Some(as_u32(ch.value)) ELSE acc.power_mw,
         freq_mhz |-> IF clock THEN Some(as_u32(ch.value)) ELSE acc.freq_mhz]

RECURSIVE parse_channels(_, _, _)
parse_channels(acc, channels, i) ==
    IF i > Len(channels) THEN acc
    ELSE IF ~is_some(channels[i]) THEN parse_channels(acc, channels, i + 1)
    ELSE parse_channels(parse_channel(acc, channels[i][1]), channels, i + 1)

AppleGpuMetrics(gpu_name, utilization, temperature, power_mw, freq_mhz) ==
    [gpu_name |-> gpu_name, utilization |-> utilization,
     temperature |-> temperature, power_mw |-> power_mw, freq_mhz |-> freq_mhz]

\* the accumulators of parse_delta after its loop over the channels
accumulate(channels) ==
    parse_channels([gpu_name |-> "Apple GPU", gpu_busy |-> 0, gpu_total |-> 0,
                    power_mw |-> None, freq_mhz |-> None],
                   channels, 1)

\* mutant: parse_delta without the .min(100)
parse_delta_without_min(delta) ==
    IF ~is_some(delta.channels)
    THEN AppleGpuMetrics("Apple GPU", 0, 0, None, None)
    ELSE LET acc == accumulate(delta.channels[1])
             utilization == IF acc.gpu_total > 0
                            THEN busy_ratio_as_u32(acc.gpu_busy, acc.gpu_total)
                            ELSE 0
         IN  AppleGpuMetrics(acc.gpu_name, utilization, 0,
                             acc.power_mw, acc.freq_mhz)

parse_delta(delta) ==
    IF ~is_some(delta.channels)
    THEN AppleGpuMetrics("Apple GPU", 0, 0, None, None)
    ELSE LET acc == accumulate(delta.channels[1])
             utilization == IF acc.gpu_total > 0
                            THEN busy_ratio_as_u32(acc.gpu_busy, acc.gpu_total)
                            ELSE 0
         IN  AppleGpuMetrics(acc.gpu_name, Min(utilization, 100), 0,
                             acc.power_mw, acc.freq_mhz)

\* The registry walk of read_gpu_temperature.  sensors is None when the
\* matching dictionary or the iterator cannot be had, else the entries in
\* iteration order, each the "temperature" property if it has one.
RECURSIVE first_temperature(_, _)
first_temperature(entries, i) ==
    IF i > Len(entries) THEN None
    ELSE IF ~is_some(entries[i]) THEN first_temperature(entries, i + 1)
    ELSE LET t == entries[i][1]
             degrees == IF t > 1000 THEN t \div 100 ELSE t
         IN  IF degrees > 0 /\ degrees < 150 THEN Some(degrees)
             ELSE first_temperature(entries, i + 1)

read_gpu_temperature(sensors) ==
    IF ~is_some(sensors) THEN None ELSE first_temperature(sensors[1], 1)

\* profiler: the sppci_model value found in system_profiler's output, None
\* when the tool cannot be run or prints no such line
get_apple_gpu_name(profiler) == unwrap_or(profiler, "Apple GPU")

\* AppleGpuSampler::new.  io: which of the IOReport calls return null.
\* groups: the channel groups whose channels were handed to
\* IOReportCreateSubscription.  The "Energy Model" channels are copied and
\* released again without being merged into the subscribed dictionary.
sampler_new(io) ==
    IF io.channels_null THEN None
    ELSE IF io.subscription_null \/ io.sub_channels_null THEN None
    ELSE Some([prev_sample |-> None, groups |-> {"GPU"}])

\* The IOReport objects AppleGpuSampler::new has created and not released
\* when it returns: the GPU channel dictionaries are released before the
\* null test, the subscription and its subscribed-channels dictionary are
\* not, whether new() returns Some or None.
sampler_new_held(io) ==
    IF io.channels_null THEN {}
    ELSE (IF io.subscription_null THEN {} ELSE {"subscription"}) \cup
         (IF io.sub_channels_null THEN {} ELSE {"channels"})

\* Drop for AppleGpuSampler: what is still held once the sampler, holding
\* the objects in `held` and its prev_sample, has been dropped.  Only
\* prev_sample is released.
drop(sampler, held) ==
    LET owned == IF is_some(sampler) /\ is_some(sampler[1].prev_sample)
                 THEN held \cup {"prev_sample"} ELSE held
    IN  owned \ {"prev_sample"}

\* IOReportCreateSamples(self.subscription, self.channels, ..) and the delta
\* of two such snapshots: of the channels the system reports, those of the
\* subscribed groups.
subscribed_channels(groups, delta) ==
    [channels |->
        IF ~is_some(delta.channels) THEN None
        ELSE Some(SelectSeq(delta.channels[1],
                            LAMBDA c : ~is_some(c) \/ c[1].group \in groups))]

\* A handle the sampler obtains: a snapshot or a delta, named by the update
\* in which it was created.  An event is its creation, a call that reads it
\* or its CFRelease.
Handle(kind, id) == [kind |-> kind, id |-> id]

CfEvent(op, h) == [op |-> op, handle |-> h]

\* mutant: sample without CFRelease(prev)
sample_events_without_release(sampler, m, now) ==
    <<CfEvent("create", Handle("snapshot", now))>> \o
    (IF ~is_some(sampler.prev_sample) THEN <<>>
     ELSE <<CfEvent("use", Handle("snapshot", sampler.prev_sample[1])),
            CfEvent("use", Handle("snapshot", now))>> \o
          (IF ~is_some(m.delta) THEN <<>>
           ELSE <<CfEvent("create", Handle("delta", now)),
                  CfEvent("use", Handle("delta", now)),
                  CfEvent("release", Handle("delta", now))>>))

\* The handle traffic of a sample() call whose IOReportCreateSamples
\* succeeds: current is created; with a baseline, IOReportCreateSamplesDelta
\* reads prev and current, prev is released, and a non-null delta is read
\* by parse_delta and released.
sample_events(sampler, m, now) ==
    <<CfEvent("create", Handle("snapshot", now))>> \o
    (IF ~is_some(sampler.prev_sample) THEN <<>>
     ELSE <<CfEvent("use", Handle("snapshot", sampler.prev_sample[1])),
            CfEvent("use", Handle("snapshot", now))>> \o
          (IF is_some(m.delta) THEN <<CfEvent("create", Handle("delta", now))>>
           ELSE <<>>) \o
          <<CfEvent("release", Handle("snapshot", sampler.prev_sample[1]))>> \o
          (IF is_some(m.delta)
           THEN <<CfEvent("use", Handle("delta", now)),
                  CfEvent("release", Handle("delta", now))>>
           ELSE <<>>))

\* the CFRelease of Drop for AppleGpuSampler
drop_releases(sampler) ==
    IF is_some(sampler) /\ is_some(sampler[1].prev_sample)
    THEN <<CfEvent("release", Handle("snapshot", sampler[1].prev_sample[1]))>>
    ELSE <<>>

\* mutant: sample without `self.prev_sample = Some(current)`
sample_without_baseline(sampler, m, now) ==
    IF ~m.create_samples
    THEN [sampler |-> sampler, result |-> None, events |-> <<>>]
    ELSE LET result == IF is_some(sampler.prev_sample) /\ is_some(m.delta)
                       THEN Some(parse_delta(subscribed_channels(sampler.groups,
                                                                  m.delta[1])))
                       ELSE None
             temperature == unwrap_or(read_gpu_temperature(m.sensors), 0)
         IN  [sampler |-> sampler,
              result |-> IF is_some(result)
                         THEN Some([result[1] EXCEPT !.temperature = temperature])
                         ELSE None,
              events |-> sample_events(sampler, m, now)]

\* mutant: sample keeping the old baseline when the delta cannot be computed
sample_keeping_baseline_without_delta(sampler, m, now) ==
    IF ~m.create_samples
    THEN [sampler |-> sampler, result |-> None, events |-> <<>>]
    ELSE LET result == IF is_some(sampler.prev_sample) /\ is_some(m.delta)
                       THEN Some(parse_delta(subscribed_channels(sampler.groups,
                                                                  m.delta[1])))
                       ELSE None
             temperature == unwrap_or(read_gpu_temperature(m.sensors), 0)
         IN  [sampler |-> IF is_some(sampler.prev_sample) /\ ~is_some(m.delta)
                          THEN sampler
                          ELSE [sampler EXCEPT !.prev_sample = Some(now)],
              result |-> IF is_some(result)
                         THEN Some([result[1] EXCEPT !.temperature = temperature])
                         ELSE None,
              events |-> sample_events(sampler, m, now)]

\* AppleGpuSampler::sample.  A snapshot is named by the update that took it.
sample(sampler, m, now) ==
    IF ~m.create_samples
    THEN [sampler |-> sampler, result |-> None, events |-> <<>>]
    ELSE LET result == IF is_some(sampler.prev_sample) /\ is_some(m.delta)
                       THEN Some(parse_delta(subscribed_channels(sampler.groups,
                                                                  m.delta[1])))
                       ELSE None
             temperature == unwrap_or(read_gpu_temperature(m.sensors), 0)
         IN  [sampler |-> [sampler EXCEPT !.prev_sample = Some(now)],
              result |-> IF is_some(result)
                         THEN Some([result[1] EXCEPT !.temperature = temperature])
                         ELSE None,
              events |-> sample_events(sampler, m, now)]

\* What macOS reports during one update: whether IOReportCreateSamples and
\* IOReportCreateSamplesDelta succeed, the delta, the temperature sensors and
\* system_profiler's model line.
MacDelta(level) ==
    IF level = 1
    THEN [channels |-> Some(<<Some(Channel("GPU", "GPU Activity", "Busy", 40)),
                              Some(Channel("GPU", "GPU Activity", "Idle", 60))>>)]
    ELSE [channels |-> Some(<<Some(Channel("GPU", "", "Apple M1", 0)),
                              Some(Channel("GPU", "GPU Activity", "active", 150)),
                              Some(Channel("Energy Model", "", "GPU Energy", 1200))>>)]

MacSensors(level) == IF level = 1 THEN Some(<<None, Some(4500)>>) ELSE None

MacWorlds(level) ==
    {[create_samples |-> c,
      delta |-> IF d THEN Some(MacDelta(level)) ELSE None,
      sensors |-> MacSensors(level),
      profiler |-> p] :
     c \in BOOLEAN, d \in BOOLEAN, p \in {None, Some("Apple M1 Pro")}}

\* "Fallback: just get GPU name from system_profiler" of detect_macos_gpu
macos_name_fallback(g, m, now) ==
    LET name == get_apple_gpu_name(m.profiler)
        info == GpuInfo(name, 0, 0, 0, 0, None, None, None)
        g1 == note_read(note_call(note_call(g, "name_fallback"), "system_profiler"),
                        "name_fallback", info)
    IN  IF \E k \in 1..Len(g1.gpus) : g1.gpus[k].name = name
        THEN g1
        ELSE push_gpu(g1, "name_fallback", info, now)

detect_macos_gpu(g, m, now) ==
    IF ~is_some(g.apple_gpu_sampler) THEN macos_name_fallback(g, m, now)
    ELSE LET before == g.apple_gpu_sampler[1]
             r == sample(before, m, now)
             g1 == [note_call(g, "ioreport") EXCEPT
                       !.apple_gpu_sampler = Some(r.sampler),
                       !.cf_log = @ \o r.events,
                       !.sample_log = Append(@,
                           [create_samples |-> m.create_samples,
                            had_prev |-> is_some(before.prev_sample),
                            prev_before |-> before.prev_sample,
                            delta |-> is_some(m.delta),
                            returned |-> r.result,
                            prev_after |-> r.sampler.prev_sample,
                            snapshot |-> now])]
         IN  IF ~is_some(r.result) THEN macos_name_fallback(g1, m, now)
             ELSE LET metrics == r.result[1]
                      profiled == metrics.gpu_name = "Apple GPU"
                      gpu_name == IF profiled THEN get_apple_gpu_name(m.profiler)
                                  ELSE metrics.gpu_name
                      info == GpuInfo(gpu_name, metrics.temperature,
                                      metrics.utilization, 0, 0, None,
                                      metrics.power_mw, None)
                      g2 == IF profiled THEN note_call(g1, "system_profiler") ELSE g1
                      g3 == push_gpu(clear_gpus(note_read(g2, "ioreport", info)),
                                     "ioreport", info, now)
                  IN  record_utilization(g3, 0, metrics.utilization)

(***************************************************************************)
(* The sysfs scrape (detect_linux_gpu).  What Linux shows during one       *)
(* update: whether /sys/class/drm exists, the (slot, product) pairs parsed *)
(* from lspci (None: the tool cannot be run), and the directory listing    *)
(* (None: read_dir fails).  A directory entry carries the two tests made   *)
(* on its name and the result of each file read under it.                  *)
(***************************************************************************)
DrmCard(name, slot, u) ==
    [name |-> name, starts_with_card |-> TRUE, contains_dash |-> FALSE,
     device_exists |-> TRUE, pci_slot |-> Some(slot),
     gpu_busy_percent |-> Some(u),
     mem_info_vram_used |-> Some(2), mem_info_vram_total |-> Some(8),
     hwmon |-> Some(<<[temp1_input |-> Some(45000),
                       power1_average |-> Some(25000000)]>>)]

DrmConnector ==
    [name |-> "card0-HDMI-A-1", starts_with_card |-> TRUE, contains_dash |-> TRUE,
     device_exists |-> TRUE, pci_slot |-> None, gpu_busy_percent |-> None,
     mem_info_vram_used |-> None, mem_info_vram_total |-> None, hwmon |-> None]

DrmEntries(level) ==
    {DrmCard("card0", "01:00.0", RawUtilization(level)),
     DrmCard("card1", "02:00.0", RawUtilization(level)),
     DrmConnector}

\* directory listings: no name twice
DrmListings(level) ==
    UNION {{l \in [1..n -> DrmEntries(level)] :
               \A i, j \in 1..n : l[i].name = l[j].name => i = j} :
           n \in 0..MaxDrmEntries}

Lspci == {None, Some(<<<<"01:00.0", "Radeon RX">>, <<"02:00.0", "Radeon RX">>>>)}

SysfsWorlds(level) ==
    {[drm_exists |-> FALSE, lspci |-> None, read_dir |-> None],
     [drm_exists |-> TRUE, lspci |-> None, read_dir |-> None]} \cup
    {[drm_exists |-> TRUE, lspci |-> l, read_dir |-> Some(d)] :
        l \in Lspci, d \in DrmListings(level)}

\* format!("GPU ({name_str})")
fallback_gpu_name(name_str) ==
    CASE name_str = "card0" -> "GPU (card0)"
      [] name_str = "card1" -> "GPU (card1)"
      [] OTHER -> "GPU (?)"

\* gpu_names.iter().find(|(s, _)| s == slot).map(|(_, name)| name.clone())
RECURSIVE find_gpu_name(_, _, _)
find_gpu_name(gpu_names, slot, i) ==
    IF i > Len(gpu_names) THEN None
    ELSE IF gpu_names[i][1] = slot THEN Some(gpu_names[i][2])
    ELSE find_gpu_name(gpu_names, slot, i + 1)

\* the hwmon scans: the first entry whose file reads and parses
RECURSIVE first_temp1_input(_, _)
first_temp1_input(hwmon, i) ==
    IF i > Len(hwmon) THEN None
    ELSE IF is_some(hwmon[i].temp1_input)
         THEN Some(hwmon[i].temp1_input[1] \div 1000)
    ELSE first_temp1_input(hwmon, i + 1)

RECURSIVE first_power1_average(_, _)
first_power1_average(hwmon, i) ==
    IF i > Len(hwmon) THEN None
    ELSE IF is_some(hwmon[i].power1_average)
         THEN Some(as_u32(hwmon[i].power1_average[1] \div 1000))
    ELSE first_power1_average(hwmon, i + 1)

\* the fields read for one card directory
sysfs_gpu_info(entry, gpu_names) ==
    LET found == IF is_some(entry.pci_slot)
                 THEN find_gpu_name(gpu_names, entry.pci_slot[1], 1)
                 ELSE None
        gpu_name == unwrap_or(found, fallback_gpu_name(entry.name))
        temperature == IF is_some(entry.hwmon)
                       THEN unwrap_or(first_temp1_input(entry.hwmon[1], 1), 0)
                       ELSE 0
        power_usage == IF is_some(entry.hwmon)
                       THEN first_power1_average(entry.hwmon[1], 1)
                       ELSE None
    IN  GpuInfo(gpu_name, temperature, unwrap_or(entry.gpu_busy_percent, 0),
                unwrap_or(entry.mem_info_vram_used, 0),
                unwrap_or(entry.mem_info_vram_total, 0),
                None, power_usage, None)

\* mutant: the push without the test for a listed name
push_always(g, info, now) ==
    LET g1 == push_gpu(g, "sysfs", info, now)
    IN  record_utilization(g1, Len(g1.gpus) - 1, info.utilization)

\* if !self.gpus.iter().any(|g| g.name == gpu_name) { push; record history }
push_unless_listed(g, info, now) ==
    IF \E k \in 1..Len(g.gpus) : g.gpus[k].name = info.name
    THEN g
    ELSE LET g1 == push_gpu(g, "sysfs", info, now)
         IN  record_utilization(g1, Len(g1.gpus) - 1, info.utilization)

\* for entry in entries.flatten() { ... }
RECURSIVE sysfs_loop(_, _, _, _, _)
sysfs_loop(g, entries, gpu_names, i, now) ==
    IF i > Len(entries) THEN g
    ELSE IF \/ ~entries[i].starts_with_card
            \/ entries[i].contains_dash
            \/ ~entries[i].device_exists
         THEN sysfs_loop(g, entries, gpu_names, i + 1, now)
    ELSE LET info == sysfs_gpu_info(entries[i], gpu_names)
         IN  sysfs_loop(push_unless_listed(note_read(g, "sysfs", info), info, now),
                        entries, gpu_names, i + 1, now)

detect_linux_gpu(g, w, now) ==
    LET g1 == note_call(g, "sysfs")
    IN  IF ~w.drm_exists THEN g1
        ELSE IF ~is_some(w.read_dir) THEN g1
        ELSE sysfs_loop(g1, w.read_dir[1], unwrap_or(w.lspci, <<>>), 1, now)

(***************************************************************************)
(* Backend selection.                                                      *)
(***************************************************************************)
Platforms == {"linux", "macos", "windows"}

\* what the platform backend can see during one update
PlatformWorlds(plat, level) ==
    CASE plat = "linux" -> SysfsWorlds(level)
      [] plat = "macos" -> MacWorlds(level)
      [] OTHER -> {[none |-> TRUE]}

detect_platform_gpu(g, plat, w, now) ==
    CASE plat = "macos" -> detect_macos_gpu(g, w, now)
      [] plat = "linux" -> detect_linux_gpu(g, w, now)
      [] OTHER -> g

\* mutant: update_gpu without `if !self.gpus.is_empty() { return; }`
update_gpu_without_return(g0, plat, has_nvml, poll, w, now) ==
    LET g == [g0 EXCEPT !.invoked = {}, !.read = <<>>]
        counted == has_nvml /\ is_some(poll.device_count)
        g1 == IF has_nvml THEN note_call(g, "nvml") ELSE g
        g2 == IF counted
              THEN nvml_loop(0, poll.device_by_index, clear_gpus(g1), now)
              ELSE g1
    IN  detect_platform_gpu(g2, plat, w, now)

\* has_nvml: self.nvml is Some; poll: what NVML answers; w: the platform's world
update_gpu(g0, plat, has_nvml, poll, w, now) ==
    LET g == [g0 EXCEPT !.invoked = {}, !.read = <<>>]
        counted == has_nvml /\ is_some(poll.device_count)
        g1 == IF has_nvml THEN note_call(g, "nvml") ELSE g
        g2 == IF counted
              THEN nvml_loop(0, poll.device_by_index, clear_gpus(g1), now)
              ELSE g1
    IN  IF counted /\ g2.gpus # <<>> THEN g2
        ELSE detect_platform_gpu(g2, plat, w, now)

(***************************************************************************)
(* The state of App.                                                       *)
(***************************************************************************)
VARIABLES
    platform,            \* the target_os the program is built for
    nvml,                \* App::nvml is Some
    cpu_history, global_cpu_history, mem_history, net_rx_history, net_tx_history,
    gpus, gpu_util_history, apple_gpu_sampler, tick_count,
    gpu_origin, invoked, read, sample_log,   \* observers, see GpuInfo above
    cf_log,    \* observer: the sampler's creations, uses and releases of handles
    ui,        \* the interactive fields of App, see next_tab above
    elapsed,   \* main loop: last_tick.elapsed() >= tick_rate
    signals,   \* observer: the signals raised by the last pass of the main loop
    running,             \* run() has not returned: the App is alive
    held,                \* observer: the IOReport objects created for the
                         \* sampler and not released
    fault,               \* observer: the field whose read failed in the
                         \* latest update and the machine state then
                         \* (FieldSpec), NoFault otherwise
    delta, metrics,      \* ParseSpec: a delta and, once parse_delta has been
                         \* applied to it, Some(its result)
    sensors, degrees     \* TempSpec: raw sensor values and, once converted,
                         \* Some(the temperature each backend reports)

app_vars == <<platform, nvml, cpu_history, global_cpu_history, mem_history,
              net_rx_history, net_tx_history, gpus, gpu_util_history,
              apple_gpu_sampler, tick_count, gpu_origin, invoked, read, sample_log,
              cf_log, ui, elapsed, signals,
              running, held, fault>>

pure_vars == <<delta, metrics, sensors, degrees>>

vars == <<app_vars, pure_vars>>

\* which IOReport calls of AppleGpuSampler::new return null
SamplerIo ==
    {[channels_null |-> c, subscription_null |-> s, sub_channels_null |-> sc] :
        c \in BOOLEAN, s \in BOOLEAN, sc \in BOOLEAN}

NvmlPollsFor(has_nvml, level) ==
    IF has_nvml THEN NvmlPolls(level)
    ELSE {[device_count |-> None, device_by_index |-> <<>>]}

\* The platform worlds an update is explored with.  When the poll lists a
\* device update_gpu returns before it looks at the platform, so one world
\* stands for all of them.
nvml_lists_device(has_nvml, poll) ==
    /\ has_nvml
    /\ is_some(poll.device_count)
    /\ \E i \in 1..Len(poll.device_by_index) : is_some(poll.device_by_index[i])

WorldsFor(plat, has_nvml, poll, level) ==
    IF nvml_lists_device(has_nvml, poll)
    THEN {CHOOSE w \in PlatformWorlds(plat, level) : TRUE}
    ELSE PlatformWorlds(plat, level)

(***************************************************************************)
(* The interactive state of App: the fields the key handlers of main.rs    *)
(* and the list refresh of update_stats read and write.  In a record u     *)
(* they keep their names.  Positions and the entries of filtered_processes *)
(* are zero-based as in the source.                                        *)
(***************************************************************************)
saturating_sub(a, b) == IF a > b THEN a - b ELSE 0

\* Tab::all()
Tab_all == <<"Overview", "Processes", "SystemInfo", "NetworkDetail">>

\* Tab::index
Tab_index(tab) == (CHOOSE i \in 1..Len(Tab_all) : Tab_all[i] = tab) - 1

\* SortBy::next
SortBy_next(by) ==
    CASE by = "Cpu" -> "Memory"
      [] by = "Memory" -> "Name"
      [] by = "Name" -> "Pid"
      [] by = "Pid" -> "Cpu"

\* Theme::next
Theme_next(theme) ==
    CASE theme = "Default" -> "Ocean"
      [] theme = "Ocean" -> "Forest"
      [] theme = "Forest" -> "Sunset"
      [] theme = "Sunset" -> "Default"

\* the comparators of sort_processes: a is ordered before b
sort_less(by, a, b) ==
    CASE by = "Cpu" -> b.cpu < a.cpu
      [] by = "Memory" -> b.memory < a.memory
      [] by = "Name" -> str_lt(to_lowercase(a.name), to_lowercase(b.name))
      [] by = "Pid" -> a.pid < b.pid

\* slice::sort_by is stable: p goes before the first entry it is less than
RECURSIVE insert_sorted(_, _, _)
insert_sorted(sorted, p, by) ==
    IF sorted = <<>> THEN <<p>>
    ELSE IF sort_less(by, p, sorted[1]) THEN <<p>> \o sorted
    ELSE <<sorted[1]>> \o insert_sorted(Tail(sorted), p, by)

RECURSIVE sort_by(_, _, _)
sort_by(sorted, rest, by) ==
    IF rest = <<>> THEN sorted
    ELSE sort_by(insert_sorted(sorted, rest[1], by), Tail(rest), by)

sort_processes(u) == [u EXCEPT !.processes = sort_by(<<>>, @, u.sort_by)]

update_filtered(u) ==
    LET query == to_lowercase(u.search_query)
        n == Len(u.processes)
        matches(i) == \/ str_contains(to_lowercase(u.processes[i + 1].name), query)
                      \/ str_contains(to_string(u.processes[i + 1].pid), query)
    IN  [u EXCEPT !.filtered_processes =
            IF u.search_query = <<>> THEN [i \in 1..n |-> i - 1]
            ELSE SelectSeq([i \in 1..n |-> i - 1], matches)]

\* the lists update_stats rebuilds before update_gpu
refresh_lists(u, s) ==
    update_filtered(sort_processes(
        [u EXCEPT !.network_interfaces = s.networks,
                  !.processes = s.processes]))

next_tab(u) ==
    [u EXCEPT !.active_tab =
        Tab_all[((Tab_index(@) + 1) % Len(Tab_all)) + 1]]

prev_tab(u) ==
    [u EXCEPT !.active_tab =
        Tab_all[((Tab_index(@) + Len(Tab_all) - 1) % Len(Tab_all)) + 1]]

scroll_down(u) ==
    CASE u.active_tab = "Processes" ->
            IF u.process_scroll < saturating_sub(Len(u.filtered_processes), 1)
            THEN [u EXCEPT !.process_scroll = @ + 1] ELSE u
      [] u.active_tab = "NetworkDetail" ->
            IF u.network_scroll < saturating_sub(Len(u.network_interfaces), 1)
            THEN [u EXCEPT !.network_scroll = @ + 1] ELSE u
      [] OTHER -> u

scroll_up(u) ==
    CASE u.active_tab = "Processes" ->
            [u EXCEPT !.process_scroll = saturating_sub(@, 1)]
      [] u.active_tab = "NetworkDetail" ->
            [u EXCEPT !.network_scroll = saturating_sub(@, 1)]
      [] OTHER -> u

\* for _ in 0..n { self.scroll_down() }
RECURSIVE scroll_down_times(_, _)
scroll_down_times(u, n) ==
    IF n = 0 THEN u ELSE scroll_down_times(scroll_down(u), n - 1)

RECURSIVE scroll_up_times(_, _)
scroll_up_times(u, n) ==
    IF n = 0 THEN u ELSE scroll_up_times(scroll_up(u), n - 1)

page_down(u) == scroll_down_times(u, 10)

page_up(u) == scroll_up_times(u, 10)

scroll_to_top(u) == [u EXCEPT !.process_scroll = 0, !.network_scroll = 0]

scroll_to_bottom(u) ==
    CASE u.active_tab = "Processes" ->
            [u EXCEPT !.process_scroll =
                saturating_sub(Len(u.filtered_processes), 1)]
      [] u.active_tab = "NetworkDetail" ->
            [u EXCEPT !.network_scroll =
                saturating_sub(Len(u.network_interfaces), 1)]
      [] OTHER -> u

toggle_sort(u) ==
    update_filtered(sort_processes([u EXCEPT !.sort_by = SortBy_next(@)]))

\* set_status: the message; its Instant is the moment of the call
set_status(u, msg) == [u EXCEPT !.status_message = Some(msg)]

toggle_theme(u) ==
    LET t == [u EXCEPT !.theme = Theme_next(@)]
    IN  set_status(t, <<"Theme: ", t.theme>>)

toggle_help(u) == [u EXCEPT !.show_help = ~@]

enter_search(u) == [u EXCEPT !.input_mode = "Search", !.search_query = <<>>]

exit_search(u) ==
    update_filtered([u EXCEPT !.input_mode = "Normal", !.search_query = <<>>])

search_push(u, c) ==
    update_filtered([u EXCEPT !.search_query = Append(@, c),
                              !.process_scroll = 0])

search_pop(u) ==
    update_filtered([u EXCEPT !.search_query =
                        IF @ = <<>> THEN @ ELSE SubSeq(@, 1, Len(@) - 1)])

\* self.filtered_processes.get(self.process_scroll), then self.processes.get(idx)
selected_process(u) ==
    IF u.process_scroll >= Len(u.filtered_processes) THEN None
    ELSE LET idx == u.filtered_processes[u.process_scroll + 1]
         IN  IF idx >= Len(u.processes) THEN None
             ELSE Some(u.processes[idx + 1])

request_kill(u) ==
    IF u.active_tab # "Processes" THEN u
    ELSE IF ~is_some(selected_process(u)) THEN u
    ELSE [u EXCEPT !.kill_confirm = Some(selected_process(u)[1].pid)]

\* What the system answers to the calls of confirm_kill: kill_with(Term) is
\* None where the signal is not supported, else whether it was delivered;
\* kill() is consulted only when that is not Some(true).
KillOutcomes ==
    {[kill_with |-> Some(TRUE), kill |-> FALSE]} \cup
    {[kill_with |-> t, kill |-> k] : t \in {None, Some(FALSE)}, k \in BOOLEAN}

Signal(pid, signal) == [pid |-> pid, signal |-> signal]

\* the signals confirm_kill raises for pid, and its status line
kill_process(u, pid, os) ==
    IF ~(\E i \in 1..Len(u.processes) : u.processes[i].pid = pid)
    THEN [ui |-> set_status(u, <<"Process not found", pid>>), signals |-> <<>>]
    ELSE IF unwrap_or(os.kill_with, FALSE)
    THEN [ui |-> set_status(u, <<"Sent SIGTERM to PID", pid>>),
          signals |-> <<Signal(pid, "Term")>>]
    ELSE [ui |-> set_status(u, IF os.kill THEN <<"Killed PID", pid>>
                               ELSE <<"Failed to kill PID", pid>>),
          signals |-> (IF is_some(os.kill_with) THEN <<Signal(pid, "Term")>>
                       ELSE <<>>) \o <<Signal(pid, "Kill")>>]

\* mutant: confirm_kill signalling the process selected when it is confirmed
confirm_kill_of_selection(u, os) ==
    IF ~is_some(u.kill_confirm) THEN [ui |-> u, signals |-> <<>>]
    ELSE IF ~is_some(selected_process(u))
    THEN [ui |-> [u EXCEPT !.kill_confirm = None], signals |-> <<>>]
    ELSE kill_process([u EXCEPT !.kill_confirm = None],
                      selected_process(u)[1].pid, os)

\* the process table self.system holds is the one self.processes was last
\* built from
confirm_kill(u, os) ==
    IF ~is_some(u.kill_confirm) THEN [ui |-> u, signals |-> <<>>]
    ELSE kill_process([u EXCEPT !.kill_confirm = None], u.kill_confirm[1], os)

cancel_kill(u) == [u EXCEPT !.kill_confirm = None]

(***************************************************************************)
(* The key handling of run() in main.rs.  A key is a KeyCode; Char(c)      *)
(* carries its character.  Each handler yields the interactive state, the  *)
(* signals raised, and how the pass of the loop goes on: "continue" (back  *)
(* to the head of the loop), "return" (run() returns) or "fall" (on to the *)
(* tick check at the end of the pass).                                     *)
(***************************************************************************)
Key(code, c) == [code |-> code, c |-> c]

Char(c) == Key("Char", c)

Keys ==
    {Key(code, "") : code \in {"Esc", "Enter", "Backspace", "Tab", "BackTab",
                               "Down", "Up", "PageDown", "PageUp", "Home", "End"}}
    \cup
    {Char(c) : c \in {"q", "j", "k", "s", "t", "?", "/", "x", "1", "2", "3",
                      "4", "y", "Y", "a", "n"}}

Handled(u, sent, flow) == [ui |-> u, signals |-> sent, flow |-> flow]

\* the match of main.rs:61-81
normal_key(u, key) ==
    CASE key \in {Char("q"), Key("Esc", "")} -> Handled(u, <<>>, "return")
      [] key = Key("Tab", "") -> Handled(next_tab(u), <<>>, "fall")
      [] key = Key("BackTab", "") -> Handled(prev_tab(u), <<>>, "fall")
      [] key \in {Key("Down", ""), Char("j")} -> Handled(scroll_down(u), <<>>, "fall")
      [] key \in {Key("Up", ""), Char("k")} -> Handled(scroll_up(u), <<>>, "fall")
      [] key = Key("PageDown", "") -> Handled(page_down(u), <<>>, "fall")
      [] key = Key("PageUp", "") -> Handled(page_up(u), <<>>, "fall")
      [] key = Key("Home", "") -> Handled(scroll_to_top(u), <<>>, "fall")
      [] key = Key("End", "") -> Handled(scroll_to_bottom(u), <<>>, "fall")
      [] key = Char("s") -> Handled(toggle_sort(u), <<>>, "fall")
      [] key = Char("t") -> Handled(toggle_theme(u), <<>>, "fall")
      [] key = Char("?") -> Handled(toggle_help(u), <<>>, "fall")
      [] key = Char("/") -> Handled(enter_search(u), <<>>, "fall")
      [] key = Char("x") -> Handled(request_kill(u), <<>>, "fall")
      [] key = Char("1") -> Handled([u EXCEPT !.active_tab = "Overview"], <<>>, "fall")
      [] key = Char("2") -> Handled([u EXCEPT !.active_tab = "Processes"], <<>>, "fall")
      [] key = Char("3") -> Handled([u EXCEPT !.active_tab = "SystemInfo"], <<>>, "fall")
      [] key = Char("4") -> Handled([u EXCEPT !.active_tab = "NetworkDetail"], <<>>, "fall")
      [] OTHER -> Handled(u, <<>>, "fall")

\* the branch of main.rs:48-59
search_key(u, key) ==
    CASE key = Key("Esc", "") -> Handled(exit_search(u), <<>>, "continue")
      [] key = Key("Enter", "") ->
            Handled([u EXCEPT !.input_mode = "Normal"], <<>>, "continue")
      [] key = Key("Backspace", "") -> Handled(search_pop(u), <<>>, "continue")
      [] key.code = "Char" -> Handled(search_push(u, key.c), <<>>, "continue")
      [] OTHER -> Handled(u, <<>>, "continue")

\* the branch of main.rs:40-46
kill_key(u, key, os) ==
    IF key \in {Char("y"), Char("Y")}
    THEN Handled(confirm_kill(u, os).ui, confirm_kill(u, os).signals, "continue")
    ELSE Handled(cancel_kill(u), <<>>, "continue")

\* mutant: the help branch without its `continue`
help_key_falling_through(u, key) == normal_key(toggle_help(u), key)

\* the branch of main.rs:35-38
help_key(u, key) == Handled(toggle_help(u), <<>>, "continue")

\* what run() does with a key event of kind Press
on_key(u, key, os) ==
    IF u.show_help THEN help_key(u, key)
    ELSE IF is_some(u.kill_confirm) THEN kill_key(u, key, os)
    ELSE IF u.input_mode = "Search" THEN search_key(u, key)
    ELSE normal_key(u, key)

\* the struct literal of App::new, before its update_stats
app_new(plat, cpu_count, io) ==
    [cpu_history |-> [i \in 1..cpu_count |-> new_history],
     global_cpu_history |-> new_history,
     mem_history |-> new_history,
     net_rx_history |-> new_history,
     net_tx_history |-> new_history,
     tick_count |-> 0,
     ui |-> [processes |-> <<>>, network_interfaces |-> <<>>,
             active_tab |-> "Overview", sort_by |-> "Cpu",
             process_scroll |-> 0, network_scroll |-> 0,
             input_mode |-> "Normal", search_query |-> <<>>,
             filtered_processes |-> <<>>, theme |-> "Default",
             show_help |-> FALSE, kill_confirm |-> None,
             status_message |-> None,
             show_process_detail |-> FALSE, process_detail |-> None],
     held |-> IF plat = "macos" THEN sampler_new_held(io) ELSE {},
     gpu |-> [gpus |-> <<>>, gpu_util_history |-> <<>>,
              apple_gpu_sampler |-> IF plat = "macos" THEN sampler_new(io) ELSE None,
              origin |-> <<>>, invoked |-> {}, read |-> <<>>, sample_log |-> <<>>,
              cf_log |-> <<>>]]

update_stats(a, s, plat, has_nvml, poll, w, now) ==
    [a EXCEPT
        !.global_cpu_history = push_history(@, s.global_cpu),
        !.cpu_history = push_cpu_history(@, s.cpus),
        !.mem_history = push_history(@, mem_pct(s)),
        !.net_rx_history = push_history(@, s.rx \div 1024),
        !.net_tx_history = push_history(@, s.tx \div 1024),
        !.ui = refresh_lists(@, s),
        !.gpu = update_gpu(@, plat, has_nvml, poll, w, now)]

\* App::tick.  expired: the status message is at least 3 s old.
tick(a, s, plat, has_nvml, poll, w, expired) ==
    [update_stats(a, s, plat, has_nvml, poll, w, a.tick_count + 1)
        EXCEPT !.tick_count = @ + 1,
               !.ui.status_message = IF is_some(@) /\ expired THEN None ELSE @]

App ==
    [cpu_history |-> cpu_history,
     global_cpu_history |-> global_cpu_history,
     mem_history |-> mem_history,
     net_rx_history |-> net_rx_history,
     net_tx_history |-> net_tx_history,
     tick_count |-> tick_count,
     ui |-> ui,
     held |-> held,
     gpu |-> [gpus |-> gpus, gpu_util_history |-> gpu_util_history,
              apple_gpu_sampler |-> apple_gpu_sampler,
              origin |-> gpu_origin, invoked |-> invoked, read |-> read,
              sample_log |-> sample_log, cf_log |-> cf_log]]

NoDelta == [channels |-> None]

NoFault == [field |-> "none", level |-> 0]

\* no temperature converted yet
NoDegrees == [macos |-> None, sysfs |-> None]

\* the pure-function variables while the App runs
PureIdle ==
    delta = NoDelta /\ metrics = None /\ sensors = None /\ degrees = NoDegrees

\* App::new on a build for plat, with NVML initialised or not, the IOReport
\* results io, and what the sources show during its update_stats.  The calls
\* it records are those of its update_stats and, on macOS, its call of
\* AppleGpuSampler::new; no other place in the program makes that call.
Construct(plat, has_nvml, io, level, poll, w) ==
    \E a \in {update_stats(app_new(plat, Len(SysSample(level).cpus), io),
                           SysSample(level), plat, has_nvml, poll, w, 0)} :
            /\ platform = plat
            /\ nvml = has_nvml
            /\ cpu_history = a.cpu_history
            /\ global_cpu_history = a.global_cpu_history
            /\ mem_history = a.mem_history
            /\ net_rx_history = a.net_rx_history
            /\ net_tx_history = a.net_tx_history
            /\ tick_count = a.tick_count
            /\ gpus = a.gpu.gpus
            /\ gpu_util_history = a.gpu.gpu_util_history
            /\ apple_gpu_sampler = a.gpu.apple_gpu_sampler
            /\ gpu_origin = a.gpu.origin
            /\ invoked = a.gpu.invoked \cup
                            (IF plat = "macos" THEN {"sampler_new"} ELSE {})
            /\ read = a.gpu.read
            /\ sample_log = a.gpu.sample_log
            /\ cf_log = a.gpu.cf_log
            /\ ui = a.ui
            /\ elapsed = FALSE
            /\ signals = <<>>
            /\ running = TRUE
            /\ held = a.held

Init ==
    /\ \E plat \in Platforms, has_nvml \in BOOLEAN, io \in SamplerIo, level \in Levels :
       \E poll \in NvmlPollsFor(has_nvml, level) :
       \E w \in WorldsFor(plat, has_nvml, poll, level) :
            Construct(plat, has_nvml, io, level, poll, w)
    /\ fault = NoFault
    /\ PureIdle

\* whether a status message shown may have reached its 3 s
Expiries(u) == IF is_some(u.status_message) THEN BOOLEAN ELSE {FALSE}

\* app.tick() on the App a0 with what the sources show during it
StepFrom(a0, level, poll, w) ==
    /\ \E expired \in Expiries(a0.ui) :
       \E a \in {tick(a0, SysSample(level), platform, nvml, poll, w, expired)} :
            /\ cpu_history' = a.cpu_history
            /\ global_cpu_history' = a.global_cpu_history
            /\ mem_history' = a.mem_history
            /\ net_rx_history' = a.net_rx_history
            /\ net_tx_history' = a.net_tx_history
            /\ tick_count' = a.tick_count
            /\ gpus' = a.gpu.gpus
            /\ gpu_util_history' = a.gpu.gpu_util_history
            /\ apple_gpu_sampler' = a.gpu.apple_gpu_sampler
            /\ gpu_origin' = a.gpu.origin
            /\ invoked' = a.gpu.invoked
            /\ read' = a.gpu.read
            /\ sample_log' = a.gpu.sample_log
            /\ cf_log' = a.gpu.cf_log
            /\ ui' = a.ui
    /\ UNCHANGED <<platform, nvml, running, held>>

Step(level, poll, w) ==
    /\ StepFrom(App, level, poll, w)
    /\ UNCHANGED <<elapsed, signals>>

\* one pass of the main loop in which the tick interval has elapsed
Tick ==
    /\ running
    /\ tick_count < MaxTicks
    /\ \E level \in Levels :
       \E poll \in NvmlPollsFor(nvml, level) :
       \E w \in WorldsFor(platform, nvml, poll, level) :
            Step(level, poll, w)
    /\ UNCHANGED <<fault, pure_vars>>

\* 'q' or Esc: run() returns and the App, its sampler with it, is dropped
Quit ==
    /\ running
    /\ running' = FALSE
    /\ held' = drop(apple_gpu_sampler, held)
    /\ cf_log' = cf_log \o drop_releases(apple_gpu_sampler)
    /\ UNCHANGED <<platform, nvml, cpu_history, global_cpu_history, mem_history,
                   net_rx_history, net_tx_history, gpus, gpu_util_history,
                   apple_gpu_sampler, tick_count, gpu_origin, invoked, read,
                   sample_log, ui, elapsed, signals, fault, pure_vars>>

Next == Tick \/ Quit

Spec == Init /\ [][Next]_vars

(***************************************************************************)
(* Field failures: one device whose reads succeed except, at most, one.    *)
(* On a Linux build with NVML the device is an NVML device one of whose    *)
(* queries returns Err; without NVML it is card0 under /sys/class/drm, one *)
(* of whose files cannot be read or parsed.                                *)
(***************************************************************************)
NvmlFaults ==
    {"none", "name", "temperature", "utilization_rates", "memory_info",
     "fan_speed", "power_usage", "enforced_power_limit"}

SysfsFaults ==
    {"none", "gpu_busy_percent", "mem_info_vram_used", "mem_info_vram_total",
     "temp1_input", "power1_average"}

FaultsFor(has_nvml) == IF has_nvml THEN NvmlFaults ELSE SysfsFaults

\* the NVML device with the query f failing
FaultyNvmlDevice(u, f) ==
    IF f = "none" THEN NvmlDevice(u) ELSE [NvmlDevice(u) EXCEPT ![f] = None]

\* card0 with the file f unreadable
FaultyDrmCard(u, f) ==
    LET card == DrmCard("card0", "01:00.0", u)
    IN  CASE f = "none" -> card
          [] f \in {"temp1_input", "power1_average"} ->
                [card EXCEPT !.hwmon = Some(<<[card.hwmon[1][1] EXCEPT ![f] = None]>>)]
          [] OTHER -> [card EXCEPT ![f] = None]

FieldPoll(has_nvml, level, f) ==
    IF has_nvml
    THEN [device_count |-> Some(1),
          device_by_index |-> <<Some(FaultyNvmlDevice(RawUtilization(level), f))>>]
    ELSE [device_count |-> None, device_by_index |-> <<>>]

FieldWorld(has_nvml, level, f) ==
    IF has_nvml
    THEN [drm_exists |-> FALSE, lspci |-> None, read_dir |-> None]
    ELSE [drm_exists |-> TRUE, lspci |-> None,
          read_dir |-> Some(<<FaultyDrmCard(RawUtilization(level), f)>>)]

FieldInit ==
    /\ \E has_nvml \in BOOLEAN, level \in Levels :
       \E f \in FaultsFor(has_nvml) :
            /\ Construct("linux", has_nvml,
                         [channels_null |-> TRUE, subscription_null |-> TRUE,
                          sub_channels_null |-> TRUE],
                         level, FieldPoll(has_nvml, level, f),
                         FieldWorld(has_nvml, level, f))
            /\ fault = [field |-> f, level |-> level]
    /\ PureIdle

FieldTick ==
    /\ running
    /\ tick_count < MaxTicks
    /\ \E level \in Levels :
       \E f \in FaultsFor(nvml) :
            /\ Step(level, FieldPoll(nvml, level, f), FieldWorld(nvml, level, f))
            /\ fault' = [field |-> f, level |-> level]
    /\ UNCHANGED pure_vars

FieldNext == FieldTick

FieldSpec == FieldInit /\ [][FieldNext]_vars

(***************************************************************************)
(* The macOS build without NVML, followed for MaxMacTicks ticks: long      *)
(* enough for the sampler to return a reading and then fail.               *)
(***************************************************************************)
MacInit ==
    /\ \E io \in SamplerIo, level \in Levels :
       \E w \in MacWorlds(level) :
            Construct("macos", FALSE, io, level, 
                      [device_count |-> None, device_by_index |-> <<>>], w)
    /\ fault = NoFault
    /\ PureIdle

MacTick ==
    /\ running
    /\ tick_count < MaxMacTicks
    /\ \E level \in Levels :
       \E w \in MacWorlds(level) :
            Step(level, [device_count |-> None, device_by_index |-> <<>>], w)
    /\ UNCHANGED <<fault, pure_vars>>

MacNext == MacTick

MacSpec == MacInit /\ [][MacNext]_vars

(***************************************************************************)
(* parse_delta on its own: Init draws a delta of at most MaxChannels       *)
(* channels, ParseDelta applies parse_delta to it.                         *)
(***************************************************************************)
ParseKinds ==
    {<<"GPU", "GPU Activity", "Busy">>, <<"GPU", "GPU Activity", "active">>,
     <<"GPU", "GPU Activity", "Idle">>, <<"GPU", "", "Core Clock">>,
     <<"GPU", "", "Apple M1">>, <<"GPU", "", "M1 Max">>,
     <<"Energy Model", "", "GPU Energy">>}

ParseValues == {-30, 0, 29, 30, 71, 90}

ParseChannels ==
    {None} \cup
    {Some(Channel(k[1], k[2], k[3], v)) : k \in ParseKinds, v \in ParseValues}

\* the deltas of n channels
Deltas(n) == {[channels |-> Some(cs)] : cs \in [1..n -> ParseChannels]}

\* a freshly built App, standing by while a pure function is examined
AppAside ==
    /\ platform = "macos"
    /\ nvml = FALSE
    /\ \E a \in {app_new("macos", 1, [channels_null |-> FALSE,
                                      subscription_null |-> FALSE,
                                      sub_channels_null |-> FALSE])} :
            /\ cpu_history = a.cpu_history
            /\ global_cpu_history = a.global_cpu_history
            /\ mem_history = a.mem_history
            /\ net_rx_history = a.net_rx_history
            /\ net_tx_history = a.net_tx_history
            /\ tick_count = a.tick_count
            /\ gpus = a.gpu.gpus
            /\ gpu_util_history = a.gpu.gpu_util_history
            /\ apple_gpu_sampler = a.gpu.apple_gpu_sampler
            /\ gpu_origin = a.gpu.origin
            /\ invoked = a.gpu.invoked
            /\ read = a.gpu.read
            /\ sample_log = a.gpu.sample_log
            /\ cf_log = a.gpu.cf_log
            /\ ui = a.ui
            /\ elapsed = FALSE
            /\ signals = <<>>
            /\ running = TRUE
            /\ held = a.held
    /\ fault = NoFault

ParseInit ==
    /\ \/ delta = NoDelta
       \/ \E n \in 0..MaxChannels : delta \in Deltas(n)
    /\ metrics = None
    /\ sensors = None
    /\ degrees = NoDegrees
    /\ AppAside

ParseDelta ==
    /\ metrics = None
    /\ metrics' = Some(parse_delta(delta))
    /\ UNCHANGED <<app_vars, delta, sensors, degrees>>

ParseNext == ParseDelta

ParseSpec == ParseInit /\ [][ParseNext]_vars

(***************************************************************************)
(* The temperature conversions on their own: TempInit draws the raw values *)
(* of at most MaxSensors sensors; ReadGpuTemperature converts them as the  *)
(* IOKit walk of macos_gpu.rs does, ReadHwmon as the hwmon scan of         *)
(* detect_linux_gpu does for temp1_input files holding the same values.    *)
(***************************************************************************)
RawTemperatures == {-5, 0, 45, 149, 150, 1200, 4500, 45000}

SensorEntries == {None} \cup {Some(t) : t \in RawTemperatures}

SensorLists(n) == [1..n -> SensorEntries]

\* val.trim().parse::<u32>(): a negative number does not parse
parse_u32(t) == IF t >= 0 THEN Some(t) ELSE None

\* the hwmon directories whose temp1_input files hold the raw values
HwmonOf(entries) ==
    [i \in 1..Len(entries) |->
        [temp1_input |-> IF is_some(entries[i]) THEN parse_u32(entries[i][1])
                         ELSE None,
         power1_average |-> None]]

TempInit ==
    /\ \/ sensors = None
       \/ \E n \in 0..MaxSensors : \E l \in SensorLists(n) : sensors = Some(l)
    /\ degrees = NoDegrees
    /\ delta = NoDelta
    /\ metrics = None
    /\ AppAside

ReadGpuTemperature ==
    /\ degrees.macos = None
    /\ degrees' = [degrees EXCEPT !.macos = Some(read_gpu_temperature(sensors))]
    /\ UNCHANGED <<app_vars, delta, metrics, sensors>>

ReadHwmon ==
    /\ degrees.sysfs = None
    /\ \E card \in {[DrmCard("card0", "01:00.0", 0) EXCEPT
                        !.hwmon = IF is_some(sensors)
                                  THEN Some(HwmonOf(sensors[1])) ELSE None]} :
          degrees' = [degrees EXCEPT
                         !.sysfs = Some(sysfs_gpu_info(card, <<>>).temperature)]
    /\ UNCHANGED <<app_vars, delta, metrics, sensors>>

TempNext == ReadGpuTemperature \/ ReadHwmon

TempSpec == TempInit /\ [][TempNext]_vars

(***************************************************************************)
(* The main loop with its key events, on a build that has no GPU backend.  *)
(* One action is one pass of `loop` in run(), or the tick interval         *)
(* running out.                                                            *)
(***************************************************************************)
\* the characters typed into the search box
SearchChars == {"A", "1"}

\* The key events drawn for a state: in the search box only characters of
\* SearchChars, and only while the query is shorter than MaxQuery; the
\* theme key only on the first theme.
Offered(u, key) ==
    /\ (/\ ~u.show_help /\ ~is_some(u.kill_confirm) /\ u.input_mode = "Search"
        /\ key.code = "Char")
           => (key.c \in SearchChars /\ Len(u.search_query) < MaxQuery)
    /\ (/\ ~u.show_help /\ ~is_some(u.kill_confirm) /\ u.input_mode = "Normal"
        /\ key = Char("t"))
           => u.theme = "Default"

\* the answers of the system drawn for a key: they matter to confirm_kill only
OutcomesFor(u, key) ==
    IF ~u.show_help /\ is_some(u.kill_confirm) /\ key \in {Char("y"), Char("Y")}
    THEN KillOutcomes
    ELSE {[kill_with |-> None, kill |-> FALSE]}

\* a signal as the loop raised it: while handling which key
Raised(sent, key) ==
    [i \in 1..Len(sent) |->
        [pid |-> sent[i].pid, signal |-> sent[i].signal, key |-> key]]

UiInit ==
    /\ Construct("windows", FALSE,
                 [channels_null |-> TRUE, subscription_null |-> TRUE,
                  sub_channels_null |-> TRUE],
                 1, [device_count |-> None, device_by_index |-> <<>>],
                 [none |-> TRUE])
    /\ fault = NoFault
    /\ PureIdle

\* last_tick.elapsed() reaches tick_rate
Elapse ==
    /\ running
    /\ ~elapsed
    /\ elapsed' = TRUE
    /\ signals' = <<>>
    /\ UNCHANGED <<platform, nvml, cpu_history, global_cpu_history, mem_history,
                   net_rx_history, net_tx_history, gpus, gpu_util_history,
                   apple_gpu_sampler, tick_count, gpu_origin, invoked, read,
                   sample_log, cf_log, ui, running, held, fault, pure_vars>>

\* a pass in which event::poll runs into its timeout: the tick is due
IdlePass ==
    /\ running
    /\ elapsed
    /\ tick_count < MaxTicks
    /\ \E level \in Levels :
       \E poll \in NvmlPollsFor(nvml, level) :
       \E w \in WorldsFor(platform, nvml, poll, level) :
            StepFrom(App, level, poll, w)
    /\ elapsed' = FALSE
    /\ signals' = <<>>
    /\ UNCHANGED <<fault, pure_vars>>

\* a pass that reads a key event whose kind is not Press: `continue`
NonPress ==
    /\ running
    /\ signals' = <<>>
    /\ UNCHANGED <<platform, nvml, cpu_history, global_cpu_history, mem_history,
                   net_rx_history, net_tx_history, gpus, gpu_util_history,
                   apple_gpu_sampler, tick_count, gpu_origin, invoked, read,
                   sample_log, cf_log, ui, elapsed, running, held, fault,
                   pure_vars>>

\* a pass that reads the key event `key` of kind Press
Press(key) ==
    /\ running
    /\ Offered(ui, key)
    /\ \E os \in OutcomesFor(ui, key) :
       \E r \in {on_key(ui, key, os)} :
            /\ signals' = Raised(r.signals, key)
            /\ \/ /\ r.flow = "return"
                  /\ running' = FALSE
                  /\ held' = drop(apple_gpu_sampler, held)
                  /\ cf_log' = cf_log \o drop_releases(apple_gpu_sampler)
                  /\ ui' = r.ui
                  /\ UNCHANGED <<platform, nvml, cpu_history, global_cpu_history,
                                 mem_history, net_rx_history, net_tx_history,
                                 gpus, gpu_util_history, apple_gpu_sampler,
                                 tick_count, gpu_origin, invoked, read,
                                 sample_log, elapsed>>
               \/ /\ r.flow = "continue" \/ (r.flow = "fall" /\ ~elapsed)
                  /\ ui' = r.ui
                  /\ UNCHANGED <<platform, nvml, cpu_history, global_cpu_history,
                                 mem_history, net_rx_history, net_tx_history,
                                 gpus, gpu_util_history, apple_gpu_sampler,
                                 tick_count, gpu_origin, invoked, read,
                                 sample_log, cf_log, elapsed, running, held>>
               \/ /\ r.flow = "fall" /\ elapsed
                  /\ tick_count < MaxTicks
                  /\ \E level \in Levels :
                     \E poll \in NvmlPollsFor(nvml, level) :
                     \E w \in WorldsFor(platform, nvml, poll, level) :
                          StepFrom([App EXCEPT !.ui = r.ui], level, poll, w)
                  /\ elapsed' = FALSE
    /\ UNCHANGED <<fault, pure_vars>>

KeyPress == \E key \in Keys : Press(key)

UiNext == Elapse \/ IdlePass \/ NonPress \/ KeyPress

UiSpec == UiInit /\ [][UiNext]_vars

\* the loop of run() goes on from pass to pass for as long as run() has
\* not returned
UiLiveSpec == UiSpec /\ WF_vars(UiNext)

\* App::has_gpu
has_gpu == gpus # <<>>

(***************************************************************************)
(* Properties.                                                             *)
(***************************************************************************)

\* C1: after construction and after any sequence of ticks, every history
\* buffer (global CPU, each core, memory, network rx and tx, and every
\* per-GPU buffer that exists) has length exactly HISTORY_LEN = 60.
C1_HistoryLengths ==
    /\ Len(global_cpu_history) = HISTORY_LEN
    /\ \A i \in 1..Len(cpu_history) : Len(cpu_history[i]) = HISTORY_LEN
    /\ Len(mem_history) = HISTORY_LEN
    /\ Len(net_rx_history) = HISTORY_LEN
    /\ Len(net_tx_history) = HISTORY_LEN
    /\ \A k \in 1..Len(gpu_util_history) : Len(gpu_util_history[k]) = HISTORY_LEN

\* ticks have run, a core is tracked and a second GPU buffer has been pushed to
C1_Witness ==
    /\ tick_count = MaxTicks
    /\ Len(cpu_history) >= 1
    /\ Len(gpu_util_history) >= 2
    /\ gpu_util_history[2][HISTORY_LEN] # 0

\* C2: after any tick, every entry of the GPU list has utilization in
\* 0..100, whichever backend produced it and whatever the source reported.
C2_UtilizationInRange ==
    tick_count >= 1 => \A k \in 1..Len(gpus) : gpus[k].utilization \in 0..100

\* C3: for any channel values handed to parse_delta, negative ones and ones
\* whose busy sum exceeds the total sum included, the utilization returned
\* is in 0..100.
C3_DeltaUtilizationInRange ==
    is_some(metrics) => metrics[1].utilization \in 0..100

\* a parsed delta with a negative channel value and a busy sum above the total
C3_Witness ==
    /\ is_some(metrics)
    /\ is_some(delta.channels)
    /\ \E i \in 1..Len(delta.channels[1]) :
          is_some(delta.channels[1][i]) /\ delta.channels[1][i][1].value < 0
    /\ accumulate(delta.channels[1]).gpu_total > 0
    /\ accumulate(delta.channels[1]).gpu_busy > accumulate(delta.channels[1]).gpu_total

\* C4 as claimed: the first sample() on a fresh sampler returns no reading
\* and stores a baseline; the second, when both snapshots and the delta are
\* obtained, returns a reading.
C4_FirstStoresBaseline ==
    /\ Len(sample_log) >= 1 =>
          /\ ~is_some(sample_log[1].returned)
          /\ is_some(sample_log[1].prev_after)
    /\ (/\ Len(sample_log) >= 2
        /\ sample_log[1].create_samples
        /\ sample_log[2].create_samples
        /\ sample_log[2].delta) => is_some(sample_log[2].returned)

\* C4 amended: the first sample() returns no reading and stores its snapshot
\* as the baseline if it obtains one, and stores nothing if it does not; the
\* second, when both snapshots and the delta are obtained, returns a reading.
C4_FirstStoresBaselineIfSampled ==
    /\ Len(sample_log) >= 1 =>
          /\ ~is_some(sample_log[1].returned)
          /\ sample_log[1].prev_after =
                IF sample_log[1].create_samples
                THEN Some(sample_log[1].snapshot) ELSE None
    /\ (/\ Len(sample_log) >= 2
        /\ sample_log[1].create_samples
        /\ sample_log[2].create_samples
        /\ sample_log[2].delta) => is_some(sample_log[2].returned)

\* a second sample() has returned a reading
C4_Witness ==
    /\ Len(sample_log) >= 2
    /\ sample_log[1].create_samples
    /\ is_some(sample_log[2].returned)

\* C5: in an update in which NVML yields at least one device, neither the
\* delta sampler nor the sysfs scrape nor the macOS name fallback is invoked.
C5_NvmlExclusive ==
    (\E j \in 1..Len(read) : read[j].backend = "nvml") =>
        invoked \cap {"ioreport", "sysfs", "name_fallback", "system_profiler"} = {}

\* a tick on Linux or macOS in which NVML yielded a device
C5_Witness ==
    /\ tick_count >= 1
    /\ platform # "windows"
    /\ \E j \in 1..Len(read) : read[j].backend = "nvml"

\* C6: the GPU list never holds entries pushed by NVML together with
\* entries pushed by a platform backend.
C6_OneBackend ==
    \A j, k \in 1..Len(gpu_origin) :
        gpu_origin[j].backend = "nvml" => gpu_origin[k].backend = "nvml"

\* C7: if in an update every backend yields zero devices, the GPU list is
\* empty afterwards and has_gpu() is false.
C7_EmptyWhenNothingYielded ==
    (tick_count >= 1 /\ read = <<>>) => (gpus = <<>> /\ ~has_gpu)

\* C8: with the sysfs scrape as the only backend, a listed GPU whose card
\* was read during the latest tick holds the values read during that tick.
C8_ReadingsAreCurrent ==
    (platform = "linux" /\ ~nvml /\ tick_count >= 1) =>
        \A k \in 1..Len(gpus) : \A j \in 1..Len(read) :
            (/\ read[j].info.name = gpus[k].name
             /\ \A i \in 1..Len(read) :
                    read[i].info.name = read[j].info.name => i = j)
            => gpus[k] = read[j].info

\* C9: with the sysfs scrape as the only backend, an update that reads a
\* card whose buffer exists appends that reading's utilization, once, to
\* the buffer.
C9_OneValuePerReading ==
    [][(platform = "linux" /\ ~nvml) =>
        \A j \in 1..Len(read') : \A k \in 1..Len(gpu_util_history) :
            (/\ k <= Len(gpus')
             /\ gpus'[k].name = read'[j].info.name
             /\ \A i \in 1..Len(read') :
                    read'[i].info.name = read'[j].info.name => i = j)
            => gpu_util_history'[k] =
                   push_history(gpu_util_history[k], read'[j].info.utilization)]_vars

\* C10: across sysfs and macOS fallback passes no name is listed twice: two
\* entries of the GPU list have the same name only if NVML pushed both.
C10_NoDuplicateNames ==
    \A i, j \in 1..Len(gpus) :
        (i # j /\ gpus[i].name = gpus[j].name) =>
            (gpu_origin[i].backend = "nvml" /\ gpu_origin[j].backend = "nvml")

\* a scrape read two cards of one name, and the name is listed once
C10_Witness ==
    /\ tick_count >= 1
    /\ \E i, j \in 1..Len(read) :
          /\ i # j
          /\ read[i].backend = "sysfs"
          /\ read[j].backend = "sysfs"
          /\ read[i].info.name = read[j].info.name
          /\ Cardinality({k \in 1..Len(gpus) : gpus[k].name = read[i].info.name}) = 1

\* C11: after any tick every entry k of the GPU list has a utilization
\* history buffer at index k, and the newest value of that buffer is the
\* utilization recorded for the entry.
C11_HistoryPerEntry ==
    tick_count >= 1 =>
        \A k \in 1..Len(gpus) :
            /\ k <= Len(gpu_util_history)
            /\ gpu_util_history[k][HISTORY_LEN] = gpus[k].utilization

\* C12: every sample() call that obtains a snapshot leaves that snapshot
\* stored as the baseline, also when no delta is obtained; a call that
\* obtains no snapshot leaves the stored baseline as it was.
C12_BaselineFollowsSnapshot ==
    \A n \in 1..Len(sample_log) :
        sample_log[n].prev_after =
            IF sample_log[n].create_samples
            THEN Some(sample_log[n].snapshot)
            ELSE sample_log[n].prev_before

\* a sample() with a stored baseline obtained a snapshot and no delta
C12_Witness ==
    /\ Len(sample_log) >= 2
    /\ is_some(sample_log[2].prev_before)
    /\ sample_log[2].create_samples
    /\ ~sample_log[2].delta
    /\ sample_log[2].prev_after # sample_log[2].prev_before

\* C13: once run() has returned and the sampler has been dropped, no
\* IOReport object acquired for the sampler (the subscription, its
\* subscribed-channels dictionary, a stored snapshot) is still held,
\* whether new() returned a sampler or returned early.
C13_NothingHeldAfterExit ==
    ~running => held = {}

\* C14: the utilization parse_delta returns is 0 when total is not
\* positive and clamp(floor(busy*100/total), 0, 100) otherwise, total being
\* the sum of the values of the "GPU"/"GPU Activity" channels and busy the
\* sum over those whose name contains "Busy" or "active".
C14_UtilizationFormula ==
    is_some(metrics) =>
        LET cs == unwrap_or(delta.channels, <<>>)
            activity(i) == /\ is_some(cs[i])
                           /\ cs[i][1].group = "GPU"
                           /\ cs[i][1].subgroup = "GPU Activity"
            matching(i) == /\ activity(i)
                           /\ \/ contains(cs[i][1].name, "Busy")
                              \/ contains(cs[i][1].name, "active")
            total[i \in 0..Len(cs)] ==
                IF i = 0 THEN 0
                ELSE total[i - 1] + (IF activity(i) THEN cs[i][1].value ELSE 0)
            busy[i \in 0..Len(cs)] ==
                IF i = 0 THEN 0
                ELSE busy[i - 1] + (IF matching(i) THEN cs[i][1].value ELSE 0)
            floor == (busy[Len(cs)] * 100) \div total[Len(cs)]
            clamp == IF floor < 0 THEN 0 ELSE IF floor > 100 THEN 100 ELSE floor
        IN  metrics[1].utilization = IF total[Len(cs)] > 0 THEN clamp ELSE 0

\* C15: when one field of a device cannot be read, the device is listed
\* after the update with that field at its default (0, "Unknown GPU", or
\* None for fan and power) and every other field as it was read.
C15_FailedFieldTakesDefault ==
    \A j \in 1..Len(read) :
        LET u == RawUtilization(fault.level)
            f == fault.field
            name == IF nvml THEN "NVIDIA RTX" ELSE "GPU (card0)"
            expected ==
                GpuInfo(IF f = "name" THEN "Unknown GPU" ELSE name,
                        IF f \in {"temperature", "temp1_input"} THEN 0
                        ELSE IF nvml THEN 55 ELSE 45,
                        IF f \in {"utilization_rates", "gpu_busy_percent"}
                        THEN 0 ELSE u,
                        IF f \in {"memory_info", "mem_info_vram_used"} THEN 0 ELSE 2,
                        IF f \in {"memory_info", "mem_info_vram_total"} THEN 0 ELSE 8,
                        IF nvml /\ f # "fan_speed" THEN Some(30) ELSE None,
                        IF f \in {"power_usage", "power1_average"} THEN None
                        ELSE IF nvml THEN Some(100) ELSE Some(25000),
                        IF nvml /\ f # "enforced_power_limit" THEN Some(200) ELSE None)
        IN  \E k \in 1..Len(gpus) : gpus[k] = expected

\* C16: when sample() returns no reading in a tick that follows one in
\* which it returned a reading, the GPU list and the GPU history buffers
\* are left as they were.
C16_FailedSampleChangesNothing ==
    [][(/\ Len(sample_log) >= 1
        /\ Len(sample_log') = Len(sample_log) + 1
        /\ is_some(sample_log[Len(sample_log)].returned)
        /\ ~is_some(sample_log'[Len(sample_log')].returned))
       => (gpus' = gpus /\ gpu_util_history' = gpu_util_history)]_vars

\* C17: a sensor whose raw value is 45000 is reported as 45 degrees, and a
\* sensor whose raw value is 45 is reported as 45 degrees, by the IOKit
\* walk and by the hwmon scan.
C17_TemperatureConversion ==
    (sensors = Some(<<Some(45000)>>) \/ sensors = Some(<<Some(45)>>)) =>
        /\ is_some(degrees.macos) => degrees.macos[1] = Some(45)
        /\ is_some(degrees.sysfs) => degrees.sysfs[1] = 45

\* C18 as claimed: whenever the delta holds more than one GPU Activity
\* channel whose name matches the busy/active heuristic, the utilization
\* parse_delta returns is below 100.
C18_BelowHundredWithSeveralBusy ==
    is_some(metrics) =>
        LET cs == unwrap_or(delta.channels, <<>>)
            matching == {i \in 1..Len(cs) :
                            /\ is_some(cs[i])
                            /\ cs[i][1].group = "GPU"
                            /\ cs[i][1].subgroup = "GPU Activity"
                            /\ \/ contains(cs[i][1].name, "Busy")
                               \/ contains(cs[i][1].name, "active")}
        IN  Cardinality(matching) > 1 => metrics[1].utilization < 100

\* C18 amended: a matching channel counts in both busy and total, so with
\* more than one of them the utilization is at most 100, and it is 100
\* whenever the matching channels make up the whole of a positive total.
C18_HundredWhenAllBusy ==
    is_some(metrics) =>
        LET cs == unwrap_or(delta.channels, <<>>)
            activity(i) == /\ is_some(cs[i])
                           /\ cs[i][1].group = "GPU"
                           /\ cs[i][1].subgroup = "GPU Activity"
            matches(i) == /\ activity(i)
                          /\ \/ contains(cs[i][1].name, "Busy")
                             \/ contains(cs[i][1].name, "active")
            total[i \in 0..Len(cs)] ==
                IF i = 0 THEN 0
                ELSE total[i - 1] + (IF activity(i) THEN cs[i][1].value ELSE 0)
            busy[i \in 0..Len(cs)] ==
                IF i = 0 THEN 0
                ELSE busy[i - 1] + (IF matches(i) THEN cs[i][1].value ELSE 0)
        IN  Cardinality({i \in 1..Len(cs) : matches(i)}) > 1 =>
                /\ metrics[1].utilization <= 100
                /\ (total[Len(cs)] > 0 /\ busy[Len(cs)] >= total[Len(cs)])
                       => metrics[1].utilization = 100

\* a parsed delta of a "Busy" and an "active" channel, both positive
C18_Witness ==
    /\ is_some(metrics)
    /\ is_some(delta.channels)
    /\ Len(delta.channels[1]) >= 2
    /\ \E i, j \in 1..Len(delta.channels[1]) :
          /\ is_some(delta.channels[1][i])
          /\ is_some(delta.channels[1][j])
          /\ delta.channels[1][i][1] = Channel("GPU", "GPU Activity", "Busy", 30)
          /\ delta.channels[1][j][1] = Channel("GPU", "GPU Activity", "active", 30)
    /\ metrics[1].utilization = 100

\* C19: when the delta holds several "Energy Model" channels whose name
\* contains "GPU" and whose value is positive, the power parse_delta
\* returns is the value of the first of them in channel order.
C19_FirstEnergyChannelWins ==
    is_some(metrics) =>
        LET cs == unwrap_or(delta.channels, <<>>)
            energy == {i \in 1..Len(cs) :
                          /\ is_some(cs[i])
                          /\ cs[i][1].group = "Energy Model"
                          /\ contains(cs[i][1].name, "GPU")
                          /\ cs[i][1].value > 0}
            first == CHOOSE i \in energy : \A j \in energy : i <= j
        IN  Cardinality(energy) > 1 =>
                metrics[1].power_mw = Some(cs[first][1].value)

\* C20: in every tick on macOS in which NVML yields no device, a sampler
\* that could not be created before is tried again: if there is still no
\* sampler after the tick, AppleGpuSampler::new was called during it.
C20_SamplerTriedAgain ==
    (/\ tick_count >= 1
     /\ platform = "macos"
     /\ \A j \in 1..Len(read) : read[j].backend # "nvml"
     /\ apple_gpu_sampler = None)
    => "sampler_new" \in invoked

\* C21: system_profiler, the naming fallback of the delta backend, is run at
\* most once in the life of the process: an update that follows one in
\* which it was run does not run it again.
C21_ProfilerOnce ==
    [][("system_profiler" \in invoked /\ tick_count' = tick_count + 1)
       => "system_profiler" \notin invoked']_vars

\* C22: the subscription opened by new() covers the "GPU" group and the
\* "Energy Model" group.
C22_SubscriptionCoversEnergy ==
    is_some(apple_gpu_sampler) =>
        {"GPU", "Energy Model"} \subseteq apple_gpu_sampler[1].groups

\* C23: a push of v onto a buffer <x1,...,x60> yields <x2,...,x60,v>, and a
\* buffer created for a GPU holds 59 zeros followed by the utilization of a
\* reading once it has been pushed to (only zeros before).  An update
\* pushes once onto each system buffer, at most once onto a per-core or
\* per-GPU buffer.
C23_PushSlidesWindow ==
    [][tick_count' = tick_count + 1 =>
        LET slid(q, r, vs) ==
                /\ Len(q) = HISTORY_LEN /\ Len(r) = HISTORY_LEN
                /\ \A i \in 1..(HISTORY_LEN - 1) : r[i] = q[i + 1]
                /\ r[HISTORY_LEN] \in vs
            fresh(r, vs) ==
                /\ Len(r) = HISTORY_LEN
                /\ \A i \in 1..(HISTORY_LEN - 1) : r[i] = 0
                /\ r[HISTORY_LEN] \in vs \cup {0}
            sys(f(_)) == {f(SysSample(l)) : l \in Levels}
            cores == UNION {{SysSample(l).cpus[i] : i \in 1..Len(SysSample(l).cpus)} :
                            l \in Levels}
            utils == {read'[j].info.utilization : j \in 1..Len(read')}
            global(s) == s.global_cpu
            rx(s) == s.rx \div 1024
            tx(s) == s.tx \div 1024
        IN  /\ slid(global_cpu_history, global_cpu_history', sys(global))
            /\ slid(mem_history, mem_history', sys(mem_pct))
            /\ slid(net_rx_history, net_rx_history', sys(rx))
            /\ slid(net_tx_history, net_tx_history', sys(tx))
            /\ Len(cpu_history') = Len(cpu_history)
            /\ \A i \in 1..Len(cpu_history) :
                    \/ cpu_history'[i] = cpu_history[i]
                    \/ slid(cpu_history[i], cpu_history'[i], cores)
            /\ Len(gpu_util_history') >= Len(gpu_util_history)
            /\ \A k \in 1..Len(gpu_util_history') :
                    IF k <= Len(gpu_util_history)
                    THEN \/ gpu_util_history'[k] = gpu_util_history[k]
                         \/ slid(gpu_util_history[k], gpu_util_history'[k], utils)
                    ELSE fresh(gpu_util_history'[k], utils)]_vars

\* an update on Linux has found a second card: its buffer is new and pushed
\* to once, the system buffer shows the value pushed at construction moved
\* one place towards the head
C23_Witness ==
    /\ platform = "linux" /\ ~nvml /\ tick_count = 1
    /\ Len(gpus) = 2 /\ Len(gpu_util_history) = 2
    /\ gpu_origin[1].tick = 0 /\ gpu_origin[2].tick = 1
    /\ gpu_util_history[2][HISTORY_LEN - 1] = 0
    /\ gpu_util_history[2][HISTORY_LEN] = gpus[2].utilization
    /\ gpus[2].utilization > 0
    /\ global_cpu_history[HISTORY_LEN - 1] = 50
    /\ global_cpu_history[HISTORY_LEN] = 0

\* C27: every snapshot or delta handle of the delta sampler is released at
\* most once and not read after its release; between calls the live
\* snapshots are exactly the one prev_sample refers to, if any, and no delta
\* is live; once the sampler is dropped no handle is live.
C27_HandlesReleasedOnce ==
    LET n == Len(cf_log)
        created == {cf_log[i].handle : i \in {j \in 1..n : cf_log[j].op = "create"}}
        releases(h) == {i \in 1..n : cf_log[i].op = "release" /\ cf_log[i].handle = h}
        live == {h \in created : releases(h) = {}}
    IN  /\ \A i \in 1..n : cf_log[i].handle \in created
        /\ \A h \in created : Cardinality(releases(h)) <= 1
        /\ \A h \in created : Cardinality({i \in 1..n : cf_log[i].op = "create"
                                                        /\ cf_log[i].handle = h}) = 1
        /\ \A i, j \in 1..n :
              (cf_log[i].op = "release" /\ cf_log[j].handle = cf_log[i].handle
               /\ j # i) => j < i
        /\ running =>
              live = IF is_some(apple_gpu_sampler)
                        /\ is_some(apple_gpu_sampler[1].prev_sample)
                     THEN {Handle("snapshot", apple_gpu_sampler[1].prev_sample[1])}
                     ELSE {}
        /\ ~running => live = {}

\* two snapshots and a delta have been taken and the sampler dropped
C27_Witness ==
    /\ ~running
    /\ \E i \in 1..Len(cf_log) : cf_log[i] = CfEvent("release", Handle("delta", 1))
    /\ cf_log[Len(cf_log)] = CfEvent("release", Handle("snapshot", 1))

\* C24: Enter pressed in Normal mode on the Processes tab, with no popup
\* open and a process selected, opens the process detail popup.
C24_EnterOpensDetail ==
    [][(/\ Press(Key("Enter", ""))
        /\ ui.input_mode = "Normal" /\ ui.active_tab = "Processes"
        /\ ~ui.show_help /\ ~is_some(ui.kill_confirm)
        /\ ~ui.show_process_detail
        /\ is_some(selected_process(ui)))
       => (ui'.show_process_detail /\ is_some(ui'.process_detail))]_vars

\* C25: while the help popup is shown a key press closes it and does
\* nothing else, whatever the key: the program goes on running, no tab,
\* scroll position, sort order, query, mode, list or kill confirmation
\* changes, no signal is raised and no tick is made.
C25_HelpKeyOnlyCloses ==
    [][(ui.show_help /\ KeyPress)
       => /\ ui' = [ui EXCEPT !.show_help = FALSE]
          /\ running' /\ signals' = <<>>
          /\ UNCHANGED <<platform, nvml, cpu_history, global_cpu_history,
                         mem_history, net_rx_history, net_tx_history, gpus,
                         gpu_util_history, apple_gpu_sampler, tick_count,
                         gpu_origin, invoked, read, sample_log, cf_log,
                         elapsed, held, fault, pure_vars>>]_vars

\* the help popup is up over a filtered process list scrolled away from the
\* top, with the tick due: whatever key comes next is handled by the popup
C25_Witness ==
    /\ running /\ ui.show_help /\ elapsed
    /\ ui.active_tab = "Processes"
    /\ ui.search_query # <<>>
    /\ ui.process_scroll > 0

\* C26: signals are raised only by a 'y' or 'Y' pressed while the kill
\* confirmation is open, and only for the PID it holds; that PID was taken
\* from the selected process by the 'x' that opened the confirmation and no
\* step changes it; any key pressed while it is open leaves it closed, and
\* a key other than 'y' and 'Y' raises no signal.
C26_SignalsOnlyOnConfirm ==
    [][/\ signals' # <<>> =>
            /\ is_some(ui.kill_confirm)
            /\ \A i \in 1..Len(signals') :
                    /\ signals'[i].key \in {Char("y"), Char("Y")}
                    /\ signals'[i].pid = ui.kill_confirm[1]
            /\ Press(signals'[1].key)
       /\ (is_some(ui.kill_confirm) /\ KeyPress) => ui'.kill_confirm = None
       /\ (is_some(ui.kill_confirm)
           /\ \E key \in Keys \ {Char("y"), Char("Y")} : Press(key))
              => signals' = <<>>
       /\ is_some(ui.kill_confirm) => ui'.kill_confirm \in {ui.kill_confirm, None}
       /\ (~is_some(ui.kill_confirm) /\ is_some(ui'.kill_confirm)) =>
            /\ Press(Char("x"))
            /\ is_some(selected_process(ui))
            /\ ui'.kill_confirm = Some(selected_process(ui)[1].pid)]_vars

\* SIGTERM and then SIGKILL have gone to a process that a tick, made while
\* the confirmation was open, has moved away from the selected row
C26_Witness ==
    /\ tick_count = 1
    /\ Len(signals) = 2
    /\ signals[1].signal = "Term" /\ signals[2].signal = "Kill"
    /\ is_some(selected_process(ui))
    /\ selected_process(ui)[1].pid # signals[1].pid

\* C28: filtered_processes is the ascending list of the indices of the
\* processes whose lowercase name or PID string contains the lowercase
\* query, all indices when the query is empty.
C28_FilteredMatchesQuery ==
    LET f == ui.filtered_processes
        query == to_lowercase(ui.search_query)
        hit(i) == \/ ui.search_query = <<>>
                  \/ str_contains(to_lowercase(ui.processes[i + 1].name), query)
                  \/ str_contains(to_string(ui.processes[i + 1].pid), query)
    IN  /\ \A j \in 1..(Len(f) - 1) : f[j] < f[j + 1]
        /\ {f[j] : j \in 1..Len(f)} = {i \in 0..(Len(ui.processes) - 1) : hit(i)}

\* C29: process_scroll is a position in filtered_processes and
\* network_scroll a position in network_interfaces (0 for an empty list).
C29_ScrollInRange ==
    /\ ui.process_scroll <= saturating_sub(Len(ui.filtered_processes), 1)
    /\ ui.network_scroll <= saturating_sub(Len(ui.network_interfaces), 1)

\* C30: once the tick interval has elapsed a tick is made (or the program
\* is quit), whatever key events arrive.
C30_TickEventually ==
    (running /\ elapsed /\ tick_count < MaxTicks) ~> (~elapsed \/ ~running)

====
